---- MODULE Spec2Model ----
(***************************************************************************)
(* A model of the Shynese flashcard application: the characters table      *)
(* behind lib/storage, the storage operations that read and write it, the  *)
(* study-session logic of lib/flashcard-logic, and the study page          *)
(* (pages/Index) that drives both from its event handlers.                 *)
(*                                                                         *)
(* The characters table is a function from row ids to rows.  Ids are       *)
(* handed out in increasing order and never reused, so the id order is     *)
(* the created_at order.  The text columns chinese, pinyin and english     *)
(* take part in no decision of the code and are left out of a row.         *)
(***************************************************************************)
EXTENDS Integers, Sequences, FiniteSets, TLC

VARIABLES
    store,        \* the characters table: [id -> row], DOMAIN = the rows that exist
    nextId,       \* the id the next insert gets
    clock,        \* the value the next `new Date()` returns
    lastInsert,   \* the payload of the last insert storage.addCharacter sent (Null before)
    calls,        \* storage.recordAnswer calls between their select and their update
    answered,     \* how many recordAnswer calls were started
    hist,         \* per row: the answers whose update was applied, in order
    clean,        \* per row: every applied update was computed from the row as it then was
    query,        \* the last query of storage: operation, argument, outcome, return value
    session,      \* the StudySession the caller holds (Null before createSession)
    lastCall,     \* the last flashcardLogic call: operation, argument before and after, return
    nAnswers,     \* recordAnswerAndNext applications since createSession
    nSkips,       \* nextCharacter applications since createSession
    input,        \* the array createSession was given: as it is now, as it was then
    page,         \* the Index page: its React state and its handlers in flight
    auth          \* the AuthProvider: its React state, the auth service, deleteAccount

dbVars      == <<store, nextId, clock, lastInsert>>
callVars    == <<calls, answered, hist, clean>>
sessionVars == <<session, lastCall, nAnswers, nSkips>>
vars        == <<store, nextId, clock, lastInsert, calls, answered, hist, clean,
                 query, session, lastCall, nAnswers, nSkips, input, page, auth>>

-----------------------------------------------------------------------------
(* Bounds of the model *)

MaxRows    == 11    \* rows of the largest table the query specification starts from
MaxPattern == 3     \* how many ways the query specification fills a table
MaxIds     == 1     \* rows ever inserted in the store specification
MaxCalls   == 2     \* recordAnswer calls in flight at once
MaxAnswers == 3     \* recordAnswer calls started in one behaviour
MaxCards   == 4     \* cards of the longest session
MaxOverrun == 1     \* how far past totalCards the cursor is followed
MaxEdits   == 2     \* changes made to the array a session was created from
MaxPageRows == 2    \* rows of the table the study page is mounted on
MaxStarts  == 2     \* study sessions requested on the page in one behaviour
MaxEvents  == 2     \* onAnswer events on the page in one behaviour
MaxHandlers == 2    \* handleAnswer invocations in flight at once
MaxMounts == 2      \* mounts of the Index page (runs of its init effect)
MaxFailedInserts == 1   \* sample inserts that fail
MaxAccountRows == 3     \* rows of the table an account is deleted from

(* Program constants *)

LimitAll == 10      \* query.limit(10)

\* null: a value that no session, character or call record equals.
Null      == [null |-> TRUE]
Undefined == "undefined"
Categories == {"Greetings", "Nature"}

\* The id of the signed-in user (AuthProvider's user.id).
CurrentUserId == "user-1"

Max(a, b) == IF a >= b THEN a ELSE b
Min(a, b) == IF a <= b THEN a ELSE b

-----------------------------------------------------------------------------
(* Rows and characters *)

\* CharacterRow without the text columns.
CharacterRow(cat, sc, att, cc, lr) ==
    [category |-> cat, score |-> sc, attempts |-> att, correct_count |-> cc,
     last_reviewed |-> lr]

\* storage.mapRowToCharacter: the row of id `id` as a Character.
mapRowToCharacter(id, row) ==
    [id |-> id, category |-> row.category, score |-> row.score,
     attempts |-> row.attempts, correctCount |-> row.correct_count,
     lastReviewed |-> row.last_reviewed]

-----------------------------------------------------------------------------
(* storage.getStudySession *)

\* .order('score', asc).order('attempts', desc): row a sorts strictly before row b.
OrderBeforeAttemptsAsc(a, b) ==
    \/ a.score < b.score
    \/ a.score = b.score /\ a.attempts < b.attempts

OrderBefore(a, b) ==
    \/ a.score < b.score
    \/ a.score = b.score /\ a.attempts > b.attempts

\* .eq('category', cat): the ids of the sequence `ids` whose row has category `cat`.
RECURSIVE SelectIds(_, _, _)
SelectIds(st, ids, cat) ==
    IF ids = <<>> THEN <<>>
    ELSE IF st[Head(ids)].category = cat
         THEN <<Head(ids)>> \o SelectIds(st, Tail(ids), cat)
         ELSE SelectIds(st, Tail(ids), cat)

\* `id` put into the sorted sequence `sorted` behind every id it does not sort before.
RECURSIVE InsertOrdered(_, _, _)
InsertOrdered(st, sorted, id) ==
    IF sorted = <<>> THEN <<id>>
    ELSE IF OrderBefore(st[id], st[Head(sorted)])
         THEN <<id>> \o sorted
         ELSE <<Head(sorted)>> \o InsertOrdered(st, Tail(sorted), id)

\* ORDER BY score ASC, attempts DESC over the rows in the order the scan delivers them.
RECURSIVE OrderRows(_, _)
OrderRows(st, ids) ==
    IF ids = <<>> THEN <<>>
    ELSE InsertOrdered(st, OrderRows(st, SubSeq(ids, 1, Len(ids) - 1)), ids[Len(ids)])

\* The existing ids in increasing / decreasing order.
RECURSIVE Ascending(_)
Ascending(S) ==
    IF S = {} THEN <<>>
    ELSE LET m == CHOOSE x \in S : \A y \in S : x <= y
         IN  <<m>> \o Ascending(S \ {m})

Reverse(s) == [i \in 1..Len(s) |-> s[Len(s) + 1 - i]]

\* The database leaves the order of rows with equal sort keys open: it is the order
\* in which the executor happens to deliver them.  The model lets it scan the
\* table forwards or backwards.
ScanOrders(st) == {Ascending(DOMAIN st), Reverse(Ascending(DOMAIN st))}

\* `category && category !== 'all'`: a specific category was asked for.
IsSpecificCategory(category) ==
    /\ category # Undefined
    /\ category # ""
    /\ category # "all"

\* The filter or the limit of the query (lines 457-463) on the ordered ids.
ApplyFilterOrLimitBoth(st, scan, category) ==
    LET ordered == OrderRows(st, IF IsSpecificCategory(category)
                                 THEN SelectIds(st, scan, category) ELSE scan)
    IN  SubSeq(ordered, 1, Min(LimitAll, Len(ordered)))

ApplyFilterOrLimitNone(st, scan, category) ==
    OrderRows(st, IF IsSpecificCategory(category)
                  THEN SelectIds(st, scan, category) ELSE scan)

ApplyFilterOrLimit(st, scan, category) ==
    IF IsSpecificCategory(category)
    THEN OrderRows(st, SelectIds(st, scan, category))
    ELSE LET ordered == OrderRows(st, scan)
         IN  SubSeq(ordered, 1, Min(LimitAll, Len(ordered)))

\* What getStudySession returns: [] on a query error, else the mapped rows.
getStudySession(st, scan, category, error) ==
    IF error THEN <<>>
    ELSE LET ids == ApplyFilterOrLimit(st, scan, category)
         IN  [i \in 1..Len(ids) |-> mapRowToCharacter(ids[i], st[ids[i]])]

NoQuery == [op |-> "none", done |-> FALSE, category |-> Undefined, error |-> FALSE,
            data |-> <<>>]

\* One whole getStudySession call.
GetStudySession(category, error) ==
    /\ \E scan \in ScanOrders(store) :
         query' = [op |-> "getStudySession", done |-> TRUE, category |-> category,
                   error |-> error,
                   data |-> getStudySession(store, scan, category, error)]
    /\ UNCHANGED <<dbVars, callVars, sessionVars, auth, input, page>>

CategoryArgs == {Undefined, "all", ""} \cup Categories \cup {"Numbers"}

-----------------------------------------------------------------------------
(* The tables the query specification starts from.  Every row is one the   *)
(* program can produce: `extra` incorrect answers at score 0 followed by   *)
(* `sc` correct ones leave (score, attempts, correct_count) =              *)
(* (sc, sc + extra, sc).                                                   *)

PatternRow(k, i) ==
    LET sc    == (i * k) % 3
        extra == (i + k) % 3
    IN  CharacterRow(IF k % 2 = 1 \/ i % 2 = 0 THEN "Greetings" ELSE "Nature",
                     sc, sc + extra, sc, (i * k) % 4)

PatternStore(k, n) == [i \in 1..n |-> PatternRow(k, i)]

\* The table of the specification's scenario: A(score 2, attempts 5), B(0,3), C(0,1).
ScenarioStore ==
    [i \in 1..3 |-> CASE i = 1 -> CharacterRow("Greetings", 2, 5, 2, 3)
                     [] i = 2 -> CharacterRow("Greetings", 0, 3, 0, 2)
                     [] OTHER -> CharacterRow("Nature", 0, 1, 0, 1)]

NoLastCall == [op |-> "none", arg |-> Null, isCorrect |-> FALSE, argAfter |-> Null, ret |-> Null]

\* No array was passed to createSession yet.
NoInput == [source |-> <<>>, given |-> <<>>, edits |-> 0]

\* The Index page as it is mounted (useState initial values, lines 60-63), with
\* no handler running.  `starts`, `base`, `events`, `failed` and `last` are
\* history: the sessions started, the updates each row had received when the
\* session was created, the onAnswer events since, whether a recordAnswer call
\* of the page ever failed, and what the last continuation of handleAnswer changed;
\* `gen` counts the sessions shown and ended so far (a session created or reset
\* begins a new generation), `setBy` is the generation on whose behalf the
\* session was last set, `built` the category the last session was fetched for,
\* and `ignored` on what handleAnswer has returned without doing anything.
\* `inits` are the init effects still running, of this mount of the page and of
\* earlier ones (an effect keeps running after its page was left), each with
\* the next sample to insert and the ids it inserted; `mounts` counts them and
\* `failedInserts` the sample inserts that failed.
NoPage ==
    [characters       |-> <<>>,
     selectedCategory |-> "all",
     showResults      |-> FALSE,
     handlers         |-> {},
     loads            |-> {},
     starts           |-> 0,
     base             |-> <<>>,
     events           |-> 0,
     failed           |-> FALSE,
     last             |-> Null,
     gen              |-> 0,
     setBy            |-> 0,
     built            |-> Undefined,
     ignored          |-> {},
     mounts           |-> 0,
     inits            |-> {},
     failedInserts    |-> 0]

\* A User of the auth service.
User(id) == [id |-> id]

\* The AuthProvider of a signed-in user: `user` and `session` are its React
\* state, `server` is the user the auth service knows the client as (what
\* getUser returns), `location` is window.location, and `del` is the
\* deleteAccount call: where it is, the user it read, whether its delete succeeded.
SignedIn ==
    [user     |-> User(CurrentUserId),
     session  |-> [user |-> User(CurrentUserId)],
     server   |-> User(CurrentUserId),
     location |-> "/",
     del      |-> [pc |-> "idle", currentUser |-> Null, deleted |-> FALSE]]

InitIdle ==
    /\ auth = SignedIn
    /\ lastInsert = Null
    /\ input = NoInput
    /\ calls = {}
    /\ answered = 0
    /\ hist = [i \in DOMAIN store |-> <<>>]
    /\ clean = [i \in DOMAIN store |-> TRUE]
    /\ query = NoQuery
    /\ session = Null
    /\ lastCall = NoLastCall
    /\ nAnswers = 0
    /\ nSkips = 0

InitRest ==
    /\ InitIdle
    /\ page = NoPage

InitQuery ==
    /\ store \in {PatternStore(k, n) : k \in 1..MaxPattern, n \in 0..MaxRows}
                 \cup {ScenarioStore}
    /\ nextId = Cardinality(DOMAIN store) + 1
    /\ clock = 4
    /\ InitRest

NextQuery ==
    \E category \in CategoryArgs, error \in BOOLEAN : GetStudySession(category, error)

SpecQuery == InitQuery /\ [][NextQuery]_vars

-----------------------------------------------------------------------------
(* storage.addCharacter, updateCharacter, deleteCharacter *)

\* The ids ever handed out: a caller may still hold the id of a deleted row.
KnownIds == 1..(nextId - 1)

UpdateRowAttemptsOnly(st, id, dbUpdates) ==
    IF id \notin DOMAIN st \/ "attempts" \notin DOMAIN dbUpdates THEN st
    ELSE [st EXCEPT ![id].attempts = dbUpdates.attempts]

\* The row of `st` with id `id` overwritten in the columns `dbUpdates` names
\* (.update(dbUpdates).eq('id', id)); no row matches a missing id.
UpdateRow(st, id, dbUpdates) ==
    IF id \notin DOMAIN st THEN st
    ELSE [st EXCEPT ![id] =
            [col \in DOMAIN st[id] |->
                IF col \in DOMAIN dbUpdates THEN dbUpdates[col] ELSE st[id][col]]]

\* storage.addCharacter's insert payload: the counters start at 0.
newCharacter(character, now) ==
    CharacterRow(character.category, 0, 0, 0, now)

\* storage.addCharacter on the table: the insert, or its error (logged, null
\* returned).
addCharacter(character, error) ==
    /\ lastInsert' = newCharacter(character, clock)
    /\ IF error
       THEN UNCHANGED <<store, nextId, clock, hist, clean>>
       ELSE /\ store' = [i \in DOMAIN store \cup {nextId} |->
                           IF i = nextId
                           THEN lastInsert'
                           ELSE store[i]]
            /\ nextId' = nextId + 1
            /\ clock' = clock + 1
            /\ hist' = [i \in DOMAIN hist \cup {nextId} |->
                          IF i = nextId THEN <<>> ELSE hist[i]]
            /\ clean' = [i \in DOMAIN clean \cup {nextId} |->
                          IF i = nextId THEN TRUE ELSE clean[i]]

\* One whole addCharacter call of the Manage page.
AddCharacter(category, error) ==
    /\ nextId <= MaxIds
    /\ addCharacter([category |-> category], error)
    /\ UNCHANGED <<calls, answered, query, sessionVars, auth, input, page>>

\* The column a Character field is written to.
ColumnOf(field) ==
    CASE field = "correctCount" -> "correct_count"
      [] field = "lastReviewed" -> "last_reviewed"
      [] OTHER -> field

\* storage.updateCharacter's dbUpdates: the fields of `updates` that are defined.
dbUpdatesOf(updates) ==
    [col \in {ColumnOf(f) : f \in DOMAIN updates} |->
        updates[CHOOSE f \in DOMAIN updates : ColumnOf(f) = col]]

updateCharacterAndScore(st, id, updates) ==
    UpdateRow(st, id, [category |-> updates.category, score |-> 1])

updateCharacter(st, id, updates) == UpdateRow(st, id, dbUpdatesOf(updates))

\* ManageCharacters.handleSaveCharacter on an edited character: the form passes
\* chinese, pinyin, english and category, of which the model keeps category.
UpdateCharacter(id, category, error) ==
    /\ id \in KnownIds
    /\ store' = IF error THEN store
                ELSE updateCharacter(store, id, [category |-> category])
    /\ UNCHANGED <<nextId, clock, lastInsert, callVars, query, sessionVars, auth, input, page>>

\* One whole deleteCharacter call.
DeleteCharacter(id, error) ==
    /\ id \in KnownIds
    /\ store' = IF error THEN store
                ELSE [i \in DOMAIN store \ {id} |-> store[i]]
    /\ UNCHANGED <<nextId, clock, lastInsert, callVars, query, sessionVars, auth, input, page>>

-----------------------------------------------------------------------------
(* storage.recordAnswer: a select, then an update computed from what it read *)

\* .select('score, attempts, correct_count') of a row.
Counters(row) ==
    [score |-> row.score, attempts |-> row.attempts, correct_count |-> row.correct_count]

\* The `updates` object of recordAnswer (lines 489-494).
recordAnswerUpdatesNoClamp(currentData, isCorrect, now) ==
    [attempts      |-> currentData.attempts + 1,
     correct_count |-> IF isCorrect THEN currentData.correct_count + 1
                       ELSE currentData.correct_count,
     score         |-> IF isCorrect THEN currentData.score + 1
                       ELSE currentData.score - 1,
     last_reviewed |-> now]

recordAnswerUpdatesCountAll(currentData, isCorrect, now) ==
    [attempts      |-> currentData.attempts + 1,
     correct_count |-> currentData.correct_count + 1,
     score         |-> IF isCorrect THEN currentData.score + 1
                       ELSE Max(0, currentData.score - 1),
     last_reviewed |-> now]

recordAnswerUpdates(currentData, isCorrect, now) ==
    [attempts      |-> currentData.attempts + 1,
     correct_count |-> IF isCorrect THEN currentData.correct_count + 1
                       ELSE currentData.correct_count,
     score         |-> IF isCorrect THEN currentData.score + 1
                       ELSE Max(0, currentData.score - 1),
     last_reviewed |-> now]

\* recordAnswer up to its first await's answer: the select of the row.  A fetch
\* error or a missing row (.single() finds none) ends the call.
recordAnswerSelect(id, isCorrect, fetchError) ==
    /\ answered < MaxAnswers
    /\ Cardinality(calls) < MaxCalls
    /\ answered' = answered + 1
    /\ IF fetchError \/ id \notin DOMAIN store
       THEN calls' = calls
       ELSE calls' = calls \cup {[n |-> answered + 1, id |-> id, isCorrect |-> isCorrect,
                                  read |-> Counters(store[id])]}
    /\ UNCHANGED <<dbVars, hist, clean>>

\* A recordAnswer call made by any caller that holds an id.
RecordAnswerSelect(id, isCorrect, fetchError) ==
    /\ id \in KnownIds
    /\ recordAnswerSelect(id, isCorrect, fetchError)
    /\ UNCHANGED <<query, sessionVars, auth, input, page>>

\* The page once the recordAnswer call with ticket n has returned: the
\* handleAnswer invocation awaiting it, if any, may go on.
Resolved(p, n, failed) ==
    [p EXCEPT !.handlers = {IF h.n = n THEN [h EXCEPT !.pc = "resume", !.failed = failed]
                            ELSE h : h \in p.handlers},
              !.failed   = p.failed \/ (failed /\ \E h \in p.handlers : h.n = n)]

\* recordAnswer from the select's answer to its end: the update, or its error
\* (logged).  An update of a row deleted meanwhile matches nothing.
RecordAnswerUpdate(call, error) ==
    /\ call \in calls
    /\ calls' = calls \ {call}
    /\ IF ~error /\ call.id \in DOMAIN store
       THEN /\ store' = UpdateRow(store, call.id,
                           recordAnswerUpdates(call.read, call.isCorrect, clock))
            /\ clock' = clock + 1
            /\ hist' = [hist EXCEPT ![call.id] = Append(@, call.isCorrect)]
            /\ clean' = [clean EXCEPT ![call.id] =
                           @ /\ call.read = Counters(store[call.id])]
       ELSE UNCHANGED <<store, clock, hist, clean>>
    /\ page' = Resolved(page, call.n, error)
    /\ UNCHANGED <<nextId, lastInsert, answered, query, sessionVars, auth, input>>

-----------------------------------------------------------------------------
(* The characters table under every interleaving of the storage operations *)

Init ==
    /\ store = <<>>
    /\ nextId = 1
    /\ clock = 0
    /\ InitRest

Next ==
    \/ \E category \in Categories, error \in BOOLEAN : AddCharacter(category, error)
    \/ \E id \in KnownIds, category \in Categories, error \in BOOLEAN :
          UpdateCharacter(id, category, error)
    \/ \E id \in KnownIds, error \in BOOLEAN : DeleteCharacter(id, error)
    \/ \E id \in KnownIds, isCorrect \in BOOLEAN, fetchError \in BOOLEAN :
          RecordAnswerSelect(id, isCorrect, fetchError)
    \/ \E call \in calls, error \in BOOLEAN : RecordAnswerUpdate(call, error)

Spec == Init /\ [][Next]_vars

-----------------------------------------------------------------------------
(* lib/flashcard-logic: the study session *)

\* The rows of a table as Characters, oldest first.
CharactersOf(st) ==
    LET ids == Ascending(DOMAIN st)
    IN  [i \in 1..Len(ids) |-> mapRowToCharacter(ids[i], st[ids[i]])]

createSession(characters) ==
    [characters       |-> characters,
     currentIndex     |-> 0,
     totalCards       |-> Len(characters),
     correctAnswers   |-> 0,
     incorrectAnswers |-> 0]

\* characters[currentIndex] of a 0-based array.
getCurrentCharacterWrap(s) ==
    IF s.currentIndex >= Len(s.characters) THEN s.characters[Len(s.characters)]
    ELSE s.characters[s.currentIndex + 1]

getCurrentCharacter(s) ==
    IF s.currentIndex >= Len(s.characters) THEN Null
    ELSE s.characters[s.currentIndex + 1]

nextCharacter(s) == [s EXCEPT !.currentIndex = s.currentIndex + 1]

recordAnswerAndNextCountBoth(s, isCorrect) ==
    [s EXCEPT !.currentIndex     = s.currentIndex + 1,
              !.correctAnswers   = s.correctAnswers + 1,
              !.incorrectAnswers = s.incorrectAnswers + 1]

recordAnswerAndNextStay(s, isCorrect) ==
    [s EXCEPT !.currentIndex     = IF s.currentIndex + 1 >= s.totalCards
                                   THEN s.currentIndex ELSE s.currentIndex + 1,
              !.correctAnswers   = IF isCorrect THEN s.correctAnswers + 1
                                   ELSE s.correctAnswers,
              !.incorrectAnswers = IF isCorrect THEN s.incorrectAnswers
                                   ELSE s.incorrectAnswers + 1]

recordAnswerAndNext(s, isCorrect) ==
    [s EXCEPT !.currentIndex     = s.currentIndex + 1,
              !.correctAnswers   = IF isCorrect THEN s.correctAnswers + 1
                                   ELSE s.correctAnswers,
              !.incorrectAnswers = IF isCorrect THEN s.incorrectAnswers
                                   ELSE s.incorrectAnswers + 1]

isSessionCompleteAtLast(s) == s.currentIndex + 1 >= Len(s.characters)

isSessionComplete(s) == s.currentIndex >= Len(s.characters)

\* A number, or the not-a-number of 0 / 0.
Number(v) == [nan |-> FALSE, v |-> v]
NaN       == [nan |-> TRUE, v |-> 0]
isNaN(x)  == x.nan

\* Math.round((a / b) * 100) for a >= 0, b >= 0 and a = 0 when b = 0: half rounds
\* up, 0 / 0 is not a number.  In integers, which is what the floating-point
\* expression yields for every b < 40.
RoundPercent(a, b) ==
    IF b = 0 THEN NaN ELSE Number((200 * a + b) \div (2 * b))

getProgressUnguarded(s) ==
    IF s.totalCards = 0 THEN 100
    ELSE RoundPercent(s.currentIndex, s.totalCards).v

getProgress(s) ==
    IF s.totalCards = 0 THEN 0
    ELSE RoundPercent(s.currentIndex, s.totalCards).v

getStats(s) ==
    LET accuracy == IF s.totalCards > 0
                    THEN RoundPercent(s.correctAnswers,
                                      s.correctAnswers + s.incorrectAnswers)
                    ELSE Number(0)
    IN  [total     |-> s.totalCards,
         completed |-> s.currentIndex,
         correct   |-> s.correctAnswers,
         incorrect |-> s.incorrectAnswers,
         accuracy  |-> IF isNaN(accuracy) THEN 0 ELSE accuracy.v,
         remaining |-> s.totalCards - s.currentIndex]

\* A call of a session operation as its caller sees it: the session passed, that
\* session object once the call has returned, and the value returned.  The
\* operations build their result with an object spread and assign to nothing, so
\* the object passed is afterwards what it was.
CallOf(op, arg, isCorrect, ret) ==
    [op |-> op, arg |-> arg, isCorrect |-> isCorrect, argAfter |-> arg, ret |-> ret]

\* The lists a session is created from: the first n rows of a table, n = 0..MaxCards.
SessionInputs == {CharactersOf(PatternStore(1, n)) : n \in 0..MaxCards}

CreateSession(characters) ==
    /\ session' = createSession(characters)
    /\ lastCall' = CallOf("createSession", Null, FALSE, session')
    /\ nAnswers' = 0
    /\ nSkips' = 0
    /\ input' = [input EXCEPT !.source = characters, !.given = characters]
    /\ UNCHANGED <<dbVars, callVars, query, page, auth>>

\* The code sets no limit to the cursor; the model follows it MaxOverrun
\* positions past the last card.
CursorFollowed == session.currentIndex < session.totalCards + MaxOverrun

RecordAnswerAndNext(isCorrect) ==
    /\ session # Null
    /\ CursorFollowed
    /\ session' = recordAnswerAndNext(session, isCorrect)
    /\ lastCall' = CallOf("recordAnswerAndNext", session, isCorrect, session')
    /\ nAnswers' = nAnswers + 1
    /\ UNCHANGED <<dbVars, callVars, query, nSkips, auth, input, page>>

NextCharacter ==
    /\ session # Null
    /\ CursorFollowed
    /\ session' = nextCharacter(session)
    /\ lastCall' = CallOf("nextCharacter", session, FALSE, session')
    /\ nSkips' = nSkips + 1
    /\ UNCHANGED <<dbVars, callVars, query, nAnswers, input, page, auth>>

GetCurrentCharacter ==
    /\ session # Null
    /\ lastCall' = CallOf("getCurrentCharacter", session, FALSE, getCurrentCharacter(session))
    /\ session' = lastCall'.argAfter
    /\ UNCHANGED <<dbVars, callVars, query, nAnswers, nSkips, auth, input, page>>

\* What the caller can do to its array afterwards: insert, remove, reorder.
SourceEdits(source) ==
    {Append(source, mapRowToCharacter(Len(source) + 1, PatternRow(1, Len(source) + 1))),
     Reverse(source)}
    \cup (IF source = <<>> THEN {} ELSE {SubSeq(source, 1, Len(source) - 1)})

\* The session once the array it was created from has changed.  createSession
\* stored a spread copy, [...characters]: the session's own array is what it was.
SessionAfterEditShared(s, newSource) == [s EXCEPT !.characters = newSource]

SessionAfterEdit(s, newSource) == s

\* The caller changes the array it passed to createSession.
EditSource(newSource) ==
    /\ session # Null
    /\ input.edits < MaxEdits
    /\ newSource \in SourceEdits(input.source)
    /\ input' = [input EXCEPT !.source = newSource, !.edits = @ + 1]
    /\ session' = SessionAfterEdit(session, newSource)
    /\ UNCHANGED <<dbVars, callVars, query, lastCall, nAnswers, nSkips, auth, page>>

InitSession ==
    /\ store = <<>>
    /\ nextId = 1
    /\ clock = 0
    /\ InitRest

NextSession ==
    \/ \E characters \in SessionInputs : CreateSession(characters)
    \/ \E isCorrect \in BOOLEAN : RecordAnswerAndNext(isCorrect)
    \/ NextCharacter
    \/ GetCurrentCharacter
    \/ \E newSource \in SourceEdits(input.source) : EditSource(newSource)

SpecSession == InitSession /\ [][NextSession]_vars

\* A session next to the array it was created from and the persisted collection,
\* both of which change.
NextCopy ==
    \/ \E characters \in SessionInputs : CreateSession(characters)
    \/ \E newSource \in SourceEdits(input.source) : EditSource(newSource)
    \/ \E category \in Categories, error \in BOOLEAN : AddCharacter(category, error)
    \/ \E id \in KnownIds, error \in BOOLEAN : DeleteCharacter(id, error)

SpecCopy == InitSession /\ [][NextCopy]_vars

-----------------------------------------------------------------------------
(* pages/Index: the study page *)

\* storage.getCharacters: every row, newest first; [] on a query error.
getCharacters(st, error) ==
    IF error THEN <<>> ELSE Reverse(CharactersOf(st))

\* The table the page is mounted on: MaxPageRows rows never answered, of
\* alternating categories.
PageStore ==
    [i \in 1..MaxPageRows |->
        CharacterRow(IF i % 2 = 1 THEN "Greetings" ELSE "Nature", 0, 0, 0, 0)]

\* Which of its three views the page renders (lines 149, 200, 258).
ResultsShown == page.showResults /\ session # Null
StudyShown   == ~ResultsShown /\ session # Null /\ getCurrentCharacter(session) # Null
MenuShown    == ~ResultsShown /\ ~StudyShown

\* The category buttons of the menu: 'all' and the categories of the loaded
\* characters; none when no character is loaded.
MenuCategories ==
    IF page.characters = <<>> THEN {}
    ELSE {"all"} \cup {page.characters[i].category : i \in 1..Len(page.characters)}

\* handleCategoryClick up to its await: the category is selected and the query sent.
HandleCategoryClick(category) ==
    /\ MenuShown
    /\ category \in MenuCategories
    /\ page.starts < MaxStarts
    /\ page' = [page EXCEPT !.selectedCategory = category,
                            !.loads  = @ \cup {[n |-> page.starts + 1, category |-> category]},
                            !.starts = @ + 1]
    /\ UNCHANGED <<dbVars, callVars, query, sessionVars, auth, input>>

\* startStudySession ("Study Again") up to its await: the query for the selected
\* category of the render the button belongs to.
StartStudySession ==
    /\ ResultsShown
    /\ page.starts < MaxStarts
    /\ page' = [page EXCEPT !.loads  = @ \cup {[n |-> page.starts + 1,
                                                category |-> page.selectedCategory]},
                            !.starts = @ + 1]
    /\ UNCHANGED <<dbVars, callVars, query, sessionVars, auth, input>>

\* Either handler from the answer of getStudySession on: a session is created
\* from a non-empty answer, and nothing is set for an empty one.
StudySessionLoaded(load, scan, error) ==
    /\ load \in page.loads
    /\ LET studyCharacters == getStudySession(store, scan, load.category, error)
       IN  IF Len(studyCharacters) > 0
           THEN /\ session' = createSession(studyCharacters)
                /\ page' = [page EXCEPT !.showResults = FALSE,
                                        !.loads  = @ \ {load},
                                        !.base   = [id \in DOMAIN hist |-> Len(hist[id])],
                                        !.events = 0,
                                        !.last   = Null,
                                        !.gen    = @ + 1,
                                        !.setBy  = page.gen + 1,
                                        !.built  = load.category]
           ELSE /\ page' = [page EXCEPT !.loads = @ \ {load}]
                /\ UNCHANGED session
    /\ UNCHANGED <<dbVars, callVars, query, lastCall, nAnswers, nSkips, auth, input>>

\* An onAnswer event of the FlashCard shown: handleAnswer of the current render,
\* with that render's session, up to the answer of recordAnswer's select.  The
\* card stays as it is, buttons included, until a continuation sets the session.
HandleAnswerCard(isCorrect, fetchError) ==
    /\ answered < MaxEvents
    /\ Cardinality(page.handlers) < MaxHandlers
    /\ LET currentCharacter == getCurrentCharacter(session)
           ended == fetchError \/ currentCharacter.id \notin DOMAIN store
       IN  /\ recordAnswerSelect(currentCharacter.id, isCorrect, fetchError)
           /\ page' = [page EXCEPT
                         !.handlers = @ \cup {[n         |-> answered + 1,
                                               session   |-> session,
                                               isCorrect |-> isCorrect,
                                               pc        |-> IF ended THEN "resume"
                                                             ELSE "await",
                                               failed    |-> ended,
                                               gen       |-> page.gen]},
                         !.events   = @ + 1,
                         !.failed   = @ \/ ended]
    /\ UNCHANGED <<query, sessionVars, auth, input>>

\* The two early returns of handleAnswer (lines 105-108): it goes on only with
\* a session that has a current character.
handleAnswerProceeds(s) == s # Null /\ getCurrentCharacter(s) # Null

HandleAnswer(isCorrect, fetchError) ==
    /\ StudyShown
    /\ HandleAnswerCard(isCorrect, fetchError)

\* handleAnswer invoked by the render of a page that shows no card (the menu or
\* the results): it returns at once unless that render's session has a current
\* character.
HandleAnswerNoCard(isCorrect, fetchError) ==
    /\ ~StudyShown
    /\ IF handleAnswerProceeds(session)
       THEN HandleAnswerCard(isCorrect, fetchError)
       ELSE /\ page' = [page EXCEPT !.ignored = @ \cup {IF session = Null THEN "no session"
                                                         ELSE "complete"}]
            /\ UNCHANGED <<dbVars, callVars, query, sessionVars, auth, input>>

\* What a continuation of handleAnswer did to the page's session: by how much
\* the cursor and the tallies of the session shown differ from before.
Continued(h, before, after) ==
    IF before = Null THEN Null
    ELSE [failed    |-> h.failed,
          isCorrect |-> h.isCorrect,
          cursor    |-> after.currentIndex - before.currentIndex,
          correct   |-> after.correctAnswers - before.correctAnswers,
          incorrect |-> after.incorrectAnswers - before.incorrectAnswers]

\* handleAnswer from the return of recordAnswer on (lines 111-120): the session
\* of the handler's render is advanced and set, and a complete session shows the
\* results and reloads the characters.
HandleAnswerResume(h, loadError) ==
    /\ h \in page.handlers
    /\ h.pc = "resume"
    /\ LET updatedSession == recordAnswerAndNext(h.session, h.isCorrect)
           complete       == isSessionComplete(updatedSession)
       IN  /\ session' = updatedSession
           /\ page' = [page EXCEPT
                         !.handlers    = @ \ {h},
                         !.showResults = IF complete THEN TRUE ELSE @,
                         !.characters  = IF complete THEN getCharacters(store, loadError)
                                         ELSE @,
                         !.last        = Continued(h, session, updatedSession),
                         !.setBy       = h.gen]
    /\ UNCHANGED <<dbVars, callVars, query, lastCall, nAnswers, nSkips, auth, input>>

\* resetSession ("End Session", "Back to Menu").
ResetSession ==
    /\ StudyShown \/ ResultsShown
    /\ session' = Null
    /\ page' = [page EXCEPT !.showResults = FALSE, !.gen = @ + 1]
    /\ UNCHANGED <<dbVars, callVars, query, lastCall, nAnswers, nSkips, auth, input>>

\* The page once its init effect has loaded the characters.
InitPage ==
    /\ store = PageStore
    /\ nextId = MaxPageRows + 1
    /\ clock = 1
    /\ InitIdle
    /\ page = [NoPage EXCEPT !.characters = getCharacters(store, FALSE)]

NextPage ==
    \/ \E category \in Categories \cup {"all"} : HandleCategoryClick(category)
    \/ StartStudySession
    \/ \E load \in page.loads, scan \in ScanOrders(store), error \in BOOLEAN :
          StudySessionLoaded(load, scan, error)
    \/ \E isCorrect \in BOOLEAN, fetchError \in BOOLEAN : HandleAnswer(isCorrect, fetchError)
    \/ \E call \in calls, error \in BOOLEAN : RecordAnswerUpdate(call, error)
    \/ \E h \in page.handlers, loadError \in BOOLEAN : HandleAnswerResume(h, loadError)
    \/ ResetSession

SpecPage == InitPage /\ [][NextPage]_vars

\* One visit of the study view: a single category click, the answers given to
\* its session, handleAnswer invoked with and without a card shown, and resets.
NextStudy ==
    \/ \E category \in Categories \cup {"all"} :
          page.starts = 0 /\ HandleCategoryClick(category)
    \/ \E load \in page.loads, scan \in ScanOrders(store), error \in BOOLEAN :
          StudySessionLoaded(load, scan, error)
    \/ \E isCorrect \in BOOLEAN, fetchError \in BOOLEAN : HandleAnswer(isCorrect, fetchError)
    \/ \E isCorrect \in BOOLEAN, fetchError \in BOOLEAN :
          HandleAnswerNoCard(isCorrect, fetchError)
    \/ \E call \in calls, error \in BOOLEAN : RecordAnswerUpdate(call, error)
    \/ \E h \in page.handlers, loadError \in BOOLEAN : HandleAnswerResume(h, loadError)
    \/ ResetSession

SpecStudy == InitPage /\ [][NextStudy]_vars

-----------------------------------------------------------------------------
(* The storage operations that can fail, on a table that has been answered *)

\* One whole getCharacters call.
GetCharacters(error) ==
    /\ query' = [op |-> "getCharacters", done |-> TRUE, category |-> Undefined,
                 error |-> error, data |-> getCharacters(store, error)]
    /\ UNCHANGED <<dbVars, callVars, sessionVars, auth, input, page>>

\* The first two rows of the scenario's table: A(score 2, attempts 5), B(0, 3).
AnsweredStore == [i \in 1..2 |-> ScenarioStore[i]]

InitFailure ==
    /\ store = AnsweredStore
    /\ nextId = Cardinality(DOMAIN store) + 1
    /\ clock = 4
    /\ InitRest

NextFailure ==
    \/ \E category \in {Undefined, "Greetings"}, error \in BOOLEAN :
          GetStudySession(category, error)
    \/ \E error \in BOOLEAN : GetCharacters(error)
    \/ \E id \in KnownIds, isCorrect \in BOOLEAN, fetchError \in BOOLEAN :
          RecordAnswerSelect(id, isCorrect, fetchError)
    \/ \E call \in calls, error \in BOOLEAN : RecordAnswerUpdate(call, error)

SpecFailure == InitFailure /\ [][NextFailure]_vars

-----------------------------------------------------------------------------
(* storage.initializeSampleData, run by the init effect of the Index page *)

\* The seven samples (lines 525-533), by category.
sampleCharacters ==
    << [category |-> "Greetings"], [category |-> "Greetings"],
       [category |-> "Nature"], [category |-> "Nature"],
       [category |-> "Numbers"], [category |-> "Numbers"], [category |-> "Numbers"] >>

\* The page is mounted and its init effect runs initializeSampleData up to the
\* answer of getCharacters: the samples are to be inserted when it is empty.
InitializeSampleData(error) ==
    /\ page.mounts < MaxMounts
    /\ LET characters == getCharacters(store, error)
       IN  page' = [page EXCEPT
                      !.mounts = @ + 1,
                      !.inits  = @ \cup {[n   |-> page.mounts + 1,
                                          pc  |-> IF Len(characters) = 0 THEN 1
                                                  ELSE Len(sampleCharacters) + 1,
                                          own |-> {}]}]
    /\ UNCHANGED <<dbVars, callVars, query, sessionVars, auth, input>>

\* One turn of the loop of initializeSampleData: addCharacter of the next sample.
InsertSample(run, error) ==
    /\ run \in page.inits
    /\ run.pc <= Len(sampleCharacters)
    /\ error => page.failedInserts < MaxFailedInserts
    /\ addCharacter(sampleCharacters[run.pc], error)
    /\ page' = [page EXCEPT
                  !.failedInserts = IF error THEN @ + 1 ELSE @,
                  !.inits = (@ \ {run}) \cup
                            {[run EXCEPT !.pc  = @ + 1,
                                         !.own = IF error THEN @ ELSE @ \cup {nextId}]}]
    /\ UNCHANGED <<calls, answered, query, sessionVars, auth, input>>

\* The init effect after initializeSampleData: loadCharacters.
LoadCharacters(run, error) ==
    /\ run \in page.inits
    /\ run.pc > Len(sampleCharacters)
    /\ page' = [page EXCEPT !.inits      = @ \ {run},
                            !.characters = getCharacters(store, error)]
    /\ UNCHANGED <<dbVars, callVars, query, sessionVars, auth, input>>

\* The table before the page is mounted: empty, or holding the user's rows.
InitSeed ==
    /\ store \in {<< >>, PageStore}
    /\ nextId = Cardinality(DOMAIN store) + 1
    /\ clock = 1
    /\ InitRest

NextSeed ==
    \/ \E error \in BOOLEAN : InitializeSampleData(error)
    \/ \E run \in page.inits, error \in BOOLEAN : InsertSample(run, error)
    \/ \E run \in page.inits, error \in BOOLEAN : LoadCharacters(run, error)

SpecSeed == InitSeed /\ [][NextSeed]_vars

-----------------------------------------------------------------------------
(* AuthProvider: deleteAccount and signOut *)

OtherUserId == "user-2"
NoUserId    == "null"     \* a row whose user_id is NULL

\* A CharacterRow with its user_id column (line 342).
OwnedRow(cat, userId) ==
    [category |-> cat, score |-> 0, attempts |-> 0, correct_count |-> 0,
     last_reviewed |-> 0, user_id |-> userId]

deleteByUserIdFirst(st, userId) ==
    LET owned == {i \in DOMAIN st : st[i]["user_id"] = userId}
    IN  [i \in DOMAIN st \ {j \in owned : \A k \in owned : j <= k} |-> st[i]]

\* .from('characters').delete().eq('user_id', userId): NULL matches nothing.
deleteByUserId(st, userId) ==
    [i \in {j \in DOMAIN st : st[j]["user_id"] # userId} |-> st[i]]

\* signOut (lines 641-650): it throws when the service reports an error, and
\* clears user and session otherwise.  `threw` tells which.
signOut(a, error) ==
    IF error THEN [auth |-> a, threw |-> TRUE]
    ELSE [auth |-> [a EXCEPT !.server = Null, !.user = Null, !.session = Null],
          threw |-> FALSE]

\* deleteAccount up to the answer of getUser: it throws when there is no user.
DeleteAccount ==
    /\ auth.user # Null
    /\ auth.del.pc \in {"idle", "threw"}
    /\ auth' = [auth EXCEPT !.del =
                  IF auth.server = Null
                  THEN [pc |-> "threw", currentUser |-> Null, deleted |-> FALSE]
                  ELSE [pc |-> "delete", currentUser |-> auth.server, deleted |-> FALSE]]
    /\ UNCHANGED <<dbVars, callVars, query, sessionVars, input, page>>

\* The delete of deleteAccount: it throws on an error.
DeleteAccountCharacters(error) ==
    /\ auth.del.pc = "delete"
    /\ IF error
       THEN /\ auth' = [auth EXCEPT !.del.pc = "threw"]
            /\ UNCHANGED store
       ELSE /\ store' = deleteByUserId(store, auth.del.currentUser.id)
            /\ auth' = [auth EXCEPT !.del.pc = "signOut", !.del.deleted = TRUE]
    /\ UNCHANGED <<nextId, clock, lastInsert, callVars, query, sessionVars, input, page>>

\* deleteAccount from `await signOut()` on: the redirect follows a sign-out
\* that did not throw.
DeleteAccountSignOut(error) ==
    /\ auth.del.pc = "signOut"
    /\ LET out == signOut(auth, error)
       IN  auth' = IF out.threw THEN [out.auth EXCEPT !.del.pc = "threw"]
                   ELSE [out.auth EXCEPT !.del.pc = "returned", !.location = "/auth"]
    /\ UNCHANGED <<dbVars, callVars, query, sessionVars, input, page>>

\* The auth service ends the client's session (expiry, a sign-out elsewhere).
SessionRevoked ==
    /\ auth.server # Null
    /\ auth' = [auth EXCEPT !.server = Null]
    /\ UNCHANGED <<dbVars, callVars, query, sessionVars, input, page>>

\* The onAuthStateChange listener (lines 596-601).
AuthStateChange ==
    /\ auth.server = Null
    /\ auth.user # Null
    /\ auth' = [auth EXCEPT !.user = Null, !.session = Null]
    /\ UNCHANGED <<dbVars, callVars, query, sessionVars, input, page>>

\* A table of up to MaxAccountRows rows of the user, of another user and of nobody.
InitAccount ==
    /\ \E n \in 0..MaxAccountRows :
         \E owners \in [1..n -> {CurrentUserId, OtherUserId, NoUserId}] :
            store = [i \in 1..n |-> OwnedRow("Greetings", owners[i])]
    /\ nextId = Cardinality(DOMAIN store) + 1
    /\ clock = 1
    /\ InitRest

NextAccount ==
    \/ DeleteAccount
    \/ \E error \in BOOLEAN : DeleteAccountCharacters(error)
    \/ \E error \in BOOLEAN : DeleteAccountSignOut(error)
    \/ SessionRevoked
    \/ AuthStateChange

SpecAccount == InitAccount /\ [][NextAccount]_vars

-----------------------------------------------------------------------------
(* Claims about storage.getStudySession, checked under SpecQuery *)

QueryIds == [i \in 1..Len(query.data) |-> query.data[i].id]

QueryDone == query.done

\* The returned characters are rows of the table, each at most once, as mapped.
DataFromStore ==
    /\ \A i \in 1..Len(query.data) :
         /\ query.data[i].id \in DOMAIN store
         /\ query.data[i].score = store[query.data[i].id].score
         /\ query.data[i].attempts = store[query.data[i].id].attempts
         /\ query.data[i].correctCount = store[query.data[i].id].correct_count
         /\ query.data[i].category = store[query.data[i].id].category
    /\ \A i, j \in 1..Len(query.data) : i # j => query.data[i].id # query.data[j].id

\* Character a may not come after character b: lower score, or equal score and
\* more attempts.
MustPrecede(a, b) ==
    \/ a.score < b.score
    \/ a.score = b.score /\ a.attempts > b.attempts

\* C1: for every table and every category argument, getStudySession returns its
\* items by score ascending and, among equal scores, by attempts descending; the
\* table A(2,5), B(0,3), C(0,1) queried without a filter yields [B, C, A].
C1_Ordered ==
    /\ \A i, j \in 1..Len(query.data) :
         i < j => ~MustPrecede(query.data[j], query.data[i])
    /\ (store = ScenarioStore /\ QueryDone /\ ~query.error
          /\ query.category \in {Undefined, "all"})
       => QueryIds = <<2, 3, 1>>

\* C1 witness: an unfiltered query answered with equal scores told apart by their
\* attempts, and with different scores.
C1_Witness ==
    /\ QueryDone /\ ~query.error /\ query.category = Undefined
    /\ \E i, j \in 1..Len(query.data) :
         /\ i < j
         /\ query.data[i].score = query.data[j].score
         /\ query.data[i].attempts > query.data[j].attempts
    /\ \E i, j \in 1..Len(query.data) : query.data[i].score < query.data[j].score

\* C2: without a category, or with 'all', a successful query returns exactly the
\* first min(10, N) items of the N sorted rows: min(10, N) distinct rows in order,
\* none of the rows left out sorting before a row returned.
C2_FirstTen ==
    (QueryDone /\ ~query.error /\ query.category \in {Undefined, "all"})
    => /\ Len(query.data) = Min(10, Cardinality(DOMAIN store))
       /\ DataFromStore
       /\ \A i, j \in 1..Len(query.data) :
            i < j => ~MustPrecede(query.data[j], query.data[i])
       /\ \A id \in DOMAIN store \ {query.data[i].id : i \in 1..Len(query.data)} :
            \A i \in 1..Len(query.data) :
               ~MustPrecede(mapRowToCharacter(id, store[id]), query.data[i])

\* C2 witness: an unfiltered query on a table of more than 10 rows, answered with 10.
C2_Witness ==
    /\ QueryDone /\ ~query.error /\ query.category = "all"
    /\ Cardinality(DOMAIN store) > 10
    /\ Len(query.data) = 10

\* The rows of category c, and nothing else, were returned.
ExactlyCategory(c) ==
    /\ DataFromStore
    /\ {query.data[i].id : i \in 1..Len(query.data)}
         = {id \in DOMAIN store : store[id].category = c}

\* C3 as stated: with any category other than 'all', a successful query returns
\* every row of that category and no other row.
C3_AnyValueButAll ==
    (QueryDone /\ ~query.error /\ query.category \notin {Undefined, "all"})
    => ExactlyCategory(query.category)

\* C3 as amended: with any non-empty category other than 'all', a successful query
\* returns every row of that category and no other row, however many there are; the
\* empty string is treated as no category and gets the first 10 rows of the table.
C3_SpecificCategory ==
    /\ (QueryDone /\ ~query.error /\ query.category \notin {Undefined, "all", ""})
       => ExactlyCategory(query.category)
    /\ (QueryDone /\ ~query.error /\ query.category = "")
       => Len(query.data) = Min(10, Cardinality(DOMAIN store))

\* C3 witness: a category query answered with more than 10 rows.
C3_Witness ==
    /\ QueryDone /\ ~query.error /\ query.category = "Greetings"
    /\ Len(query.data) > 10

-----------------------------------------------------------------------------
(* Claims about the counters of a row, checked under Spec *)

\* The score the rule of the claim gives after the answers h, starting from 0.
RECURSIVE ClaimedScore(_)
ClaimedScore(h) ==
    IF h = <<>> THEN 0
    ELSE LET before == ClaimedScore(SubSeq(h, 1, Len(h) - 1))
         IN  IF h[Len(h)] THEN before + 1
             ELSE IF before - 1 > 0 THEN before - 1 ELSE 0

CorrectIn(h) == Cardinality({i \in 1..Len(h) : h[i]})

\* C4: each successful recordAnswer on a row with counters (score, attempts,
\* correctCount) adds 1 to attempts and, if correct, 1 to score and correctCount,
\* and if incorrect takes 1 off the score down to 0 and leaves correctCount: a row
\* whose updates each started from the row as it then was carries the rule applied
\* to its answers in order; three incorrect answers give (0,3,0), a correct then an
\* incorrect one (0,2,1).
C4_ScoreRule ==
    \A id \in DOMAIN store :
       clean[id] =>
          /\ store[id].attempts = Len(hist[id])
          /\ store[id].correct_count = CorrectIn(hist[id])
          /\ store[id].score = ClaimedScore(hist[id])
          /\ hist[id] = <<FALSE, FALSE, FALSE>> => Counters(store[id]) =
                [score |-> 0, attempts |-> 3, correct_count |-> 0]
          /\ hist[id] = <<TRUE, FALSE>> => Counters(store[id]) =
                [score |-> 0, attempts |-> 2, correct_count |-> 1]

\* C4 witness: a row answered correctly, then incorrectly, then correctly.
C4_Witness ==
    \E id \in DOMAIN store :
       /\ clean[id]
       /\ hist[id] = <<TRUE, FALSE, TRUE>>
       /\ Counters(store[id]) = [score |-> 1, attempts |-> 3, correct_count |-> 2]

\* C5: in every reachable table, whatever the interleaving of addCharacter, the
\* form's updateCharacter, deleteCharacter and recordAnswer calls (overlapping or
\* failing ones included), every row has correctCount <= attempts and score >= 0.
C5_CounterInvariant ==
    \A id \in DOMAIN store :
       /\ store[id].correct_count <= store[id].attempts
       /\ store[id].score >= 0
       /\ store[id].correct_count >= 0

\* C5 witness: a row that lost an update to an overlapping recordAnswer call while
\* another call on it is still between its select and its update.
C5_Witness ==
    \E id \in DOMAIN store :
       /\ ~clean[id]
       /\ Len(hist[id]) > store[id].attempts
       /\ \E call \in calls : call.id = id

-----------------------------------------------------------------------------
(* Claims about the session operations, checked under SpecSession *)

HasSession == session # Null

\* C6: recordAnswerAndNext(session, isCorrect) returns a session with currentIndex
\* one larger, correctAnswers one larger iff isCorrect and incorrectAnswers one
\* larger otherwise, characters and totalCards as they were; the session passed in
\* is not modified.
C6_RecordAnswerAndNext ==
    lastCall.op = "recordAnswerAndNext" =>
       /\ lastCall.ret.currentIndex = lastCall.arg.currentIndex + 1
       /\ lastCall.ret.correctAnswers =
             lastCall.arg.correctAnswers + (IF lastCall.isCorrect THEN 1 ELSE 0)
       /\ lastCall.ret.incorrectAnswers =
             lastCall.arg.incorrectAnswers + (IF lastCall.isCorrect THEN 0 ELSE 1)
       /\ lastCall.ret.characters = lastCall.arg.characters
       /\ lastCall.ret.totalCards = lastCall.arg.totalCards
       /\ lastCall.argAfter = lastCall.arg
       /\ session = lastCall.ret

\* C6 witness: an incorrect answer recorded on a session that holds a correct one,
\* and one recorded on a session already complete.
C6_Witness ==
    /\ lastCall.op = "recordAnswerAndNext"
    /\ ~lastCall.isCorrect
    /\ lastCall.arg.correctAnswers > 0
    /\ lastCall.ret.incorrectAnswers = 1

\* C7 as stated: for every session reached from createSession by the exported
\* operations, getStats's correct + incorrect equals currentIndex.
C7_TalliesEqualCursor ==
    HasSession =>
       getStats(session).correct + getStats(session).incorrect = session.currentIndex

\* C7 as amended: correct + incorrect equals currentIndex less the number of
\* nextCharacter calls, so it equals currentIndex for every session reached from
\* createSession by recordAnswerAndNext and the reading operations alone.
C7_TalliesEqualAnswers ==
    HasSession =>
       /\ getStats(session).correct + getStats(session).incorrect
             = session.currentIndex - nSkips
       /\ nSkips = 0 =>
             getStats(session).correct + getStats(session).incorrect
                = session.currentIndex

\* C7 witness: a session with answers of both kinds and no skipped card.
C7_Witness ==
    /\ HasSession
    /\ nSkips = 0
    /\ session.correctAnswers > 0
    /\ session.incorrectAnswers > 0

\* C8: getCurrentCharacter returns null iff isSessionComplete is true, otherwise
\* the item at position currentIndex; the call leaves the session as it was.
C8_CurrentIffNotComplete ==
    /\ HasSession =>
         /\ (getCurrentCharacter(session) = Null) <=> isSessionComplete(session)
         /\ ~isSessionComplete(session) =>
               /\ session.currentIndex + 1 \in 1..Len(session.characters)
               /\ getCurrentCharacter(session) = session.characters[session.currentIndex + 1]
    /\ lastCall.op = "getCurrentCharacter" =>
         /\ lastCall.argAfter = lastCall.arg
         /\ session = lastCall.arg
         /\ (lastCall.ret = Null) <=> isSessionComplete(lastCall.arg)

\* C8 witness: getCurrentCharacter called on a complete session, answering null.
C8_Witness ==
    /\ lastCall.op = "getCurrentCharacter"
    /\ lastCall.ret = Null
    /\ session.totalCards > 0
    /\ session.currentIndex = session.totalCards

C10_CompleteAfterTotal ==
    (HasSession /\ nSkips = 0) =>
       /\ nAnswers = session.totalCards =>
             /\ isSessionComplete(session)
             /\ getStats(session).completed = getStats(session).total
             /\ getStats(session).remaining = 0
       /\ nAnswers < session.totalCards => ~isSessionComplete(session)

\* C10 witness: a session of several cards after as many answers, both kinds among
\* them.
C10_Witness ==
    /\ HasSession /\ nSkips = 0
    /\ session.totalCards > 2
    /\ nAnswers = session.totalCards
    /\ session.correctAnswers > 0
    /\ session.incorrectAnswers > 0
    /\ isSessionComplete(session)

-----------------------------------------------------------------------------
(* Claims about getStats, createSession and the session's bounds, checked under
   SpecSession *)

\* C11: getStats.accuracy is round(correct / (correct + incorrect) * 100) when
\* correct + incorrect > 0 and 0 when it is 0; always an integer in [0, 100].
C11_AccuracyOfAnswered ==
    HasSession =>
        LET stats == getStats(session)
            n     == session.correctAnswers + session.incorrectAnswers
        IN  /\ n > 0 => stats.accuracy = (200 * session.correctAnswers + n) \div (2 * n)
            /\ n = 0 => stats.accuracy = 0
            /\ stats.accuracy \in 0..100

\* C13: createSession([]) yields a session with totalCards 0 that is complete at
\* once, has no current character and progress 0.
C13_EmptySession ==
    (lastCall.op = "createSession" /\ lastCall.ret.characters = <<>>) =>
        /\ session = lastCall.ret
        /\ session.totalCards = 0
        /\ session.currentIndex = 0
        /\ session.correctAnswers = 0 /\ session.incorrectAnswers = 0
        /\ isSessionComplete(session)
        /\ getCurrentCharacter(session) = Null
        /\ getProgress(session) = 0

\* C13 witness: a session just created from the empty list.
C13_Witness ==
    /\ lastCall.op = "createSession"
    /\ HasSession
    /\ session.characters = <<>>

\* The value of a call that was refused: an error, not a session.
Rejected(ret) == "error" \in DOMAIN ret

\* C16: recordAnswerAndNext called on a complete session is rejected with an
\* error; it neither returns an advanced session nor returns the session as is.
C16_CompleteRejected ==
    (lastCall.op = "recordAnswerAndNext" /\ isSessionComplete(lastCall.arg)) =>
        Rejected(lastCall.ret)

\* C20: in every state reachable from createSession through the exported session
\* operations the cursor lies in 0..totalCards, and a complete session has its
\* cursor at totalCards.
C20_CursorWithinTotal ==
    HasSession =>
        /\ session.currentIndex >= 0
        /\ session.currentIndex <= session.totalCards
        /\ isSessionComplete(session) => session.currentIndex = session.totalCards

-----------------------------------------------------------------------------
(* Claims about concurrent recordAnswer calls (Spec) and the order of ties
   (SpecQuery) *)

\* C15: recordAnswer is atomic per item: once k calls on one item have all
\* written, the item's attempts have grown by k and its correct_count by the
\* number of correct answers among them, however the calls overlapped.
C15_NoLostUpdate ==
    \A id \in DOMAIN store :
        /\ store[id].attempts = Len(hist[id])
        /\ store[id].correct_count = CorrectIn(hist[id])

\* C18: rows with equal (score, attempts) are returned most recently created
\* first, so that the order is the same on every call.
C18_TiesNewestFirst ==
    \A i, j \in 1..Len(query.data) :
        (/\ i < j
         /\ query.data[i].score = query.data[j].score
         /\ query.data[i].attempts = query.data[j].attempts)
        => query.data[i].id > query.data[j].id

-----------------------------------------------------------------------------
(* Claims about the session's copy of its cards (SpecCopy, SpecSession) and the
   insert payload (Spec) *)

\* C12: createSession(items) starts at cursor 0 with both tallies 0 and
\* totalCards = the length of items, and holds a copy: whatever is later
\* inserted into, removed from or reordered in the array it was given, or in
\* the persisted collection, the session's cards and totalCards stay the same.
C12_SessionHoldsCopy ==
    /\ HasSession =>
         /\ session.characters = input.given
         /\ session.totalCards = Len(input.given)
    /\ lastCall.op = "createSession" =>
         /\ session.currentIndex = 0
         /\ session.correctAnswers = 0
         /\ session.incorrectAnswers = 0

\* C12 witness: the array has changed since the session was created from it, and
\* so has the persisted collection.
C12_Witness ==
    /\ HasSession
    /\ session.totalCards > 1
    /\ input.source # input.given
    /\ Len(input.source) # Len(input.given)
    /\ store # <<>>

\* C19: every insert payload of storage.addCharacter carries user_id, the id of
\* the authenticated user.
C19_InsertCarriesUserId ==
    lastInsert # Null =>
        /\ "user_id" \in DOMAIN lastInsert
        /\ lastInsert["user_id"] = CurrentUserId

-----------------------------------------------------------------------------
(* Claims about the study page's handleAnswer, checked under SpecPage *)

\* The updates row `id` has received since the page's session was created.
AppliedSince(id) == Len(hist[id]) - page.base[id]

RECURSIVE AppliedUpTo(_)
AppliedUpTo(k) == IF k = 0 THEN 0 ELSE AppliedSince(k) + AppliedUpTo(k - 1)

\* One study session was started and is still the page's, no handler is under
\* way and no recordAnswer call failed.
PageSettled ==
    /\ session # Null
    /\ page.starts = 1
    /\ page.handlers = {}
    /\ page.loads = {}
    /\ ~page.failed

\* C14: the score update is applied exactly once per answer: in a study session,
\* when every write succeeded and every handleAnswer has run to its end, however
\* the onAnswer events overlapped, the recordAnswer updates applied are as many as
\* correctAnswers + incorrectAnswers, and no card was updated more than once.
C14_OncePerAnswer ==
    PageSettled =>
        /\ AppliedUpTo(Len(hist)) = session.correctAnswers + session.incorrectAnswers
        /\ \A id \in DOMAIN hist : AppliedSince(id) <= 1

\* C17: a recordAnswer call that failed does not keep the session from
\* advancing: the continuation of its handleAnswer moves the cursor of the
\* session shown forward by one and increments the matching tally, and once
\* totalCards answers were given the session is complete.
C17_AdvancesDespiteFailure ==
    /\ (page.last # Null /\ page.last.failed) =>
         /\ page.last.cursor = 1
         /\ page.last.correct = (IF page.last.isCorrect THEN 1 ELSE 0)
         /\ page.last.incorrect = (IF page.last.isCorrect THEN 0 ELSE 1)
    /\ (session # Null /\ page.starts = 1 /\ page.handlers = {} /\ page.loads = {}
          /\ page.events >= session.totalCards)
       => isSessionComplete(session)

-----------------------------------------------------------------------------
(* Claims about how the counters of a row change from one table to the next,
   checked under Spec *)

\* C21: the attempts of a row never decrease from one state of the table to the
\* next, however the select and update steps of concurrent recordAnswer calls
\* on the row interleave.
C21_AttemptsNeverDecrease ==
    [][\A id \in DOMAIN store \cap DOMAIN store' :
          store'[id].attempts >= store[id].attempts]_vars


\* C22: score, attempts and correct_count change only through recordAnswer: a
\* row is created with all three 0 and keeps them until a recordAnswer update
\* is applied to it; a step that changes one of them applies such an update, so
\* no insert, no update from the character form and no session operation does.
C22_OnlyRecordAnswer ==
    /\ [](\A id \in DOMAIN store :
             hist[id] = <<>> =>
                 Counters(store[id]) = [score |-> 0, attempts |-> 0, correct_count |-> 0])
    /\ [][\A id \in DOMAIN store \cap DOMAIN store' :
             Counters(store'[id]) # Counters(store[id]) =>
                 /\ Len(hist'[id]) = Len(hist[id]) + 1
                 /\ calls' # calls]_vars

\* C22 witness: a row that was answered and whose category the form has changed
\* since it was inserted.
C22_Witness ==
    /\ nextId > MaxIds
    /\ \E id \in DOMAIN store :
         /\ hist[id] # <<>>
         /\ store[id].category # lastInsert.category

-----------------------------------------------------------------------------
(* Claims about what the order of getStudySession depends on, checked under
   SpecQuery *)

\* The tables that differ from st in the last_reviewed of one row.
ReviewedOtherwise(st) ==
    {[st EXCEPT ![id].last_reviewed = lr] : id \in DOMAIN st, lr \in 0..4}

\* The tables that differ from st in the category of one row.
LabelledOtherwise(st) ==
    {[st EXCEPT ![id].category = c] : id \in DOMAIN st, c \in Categories}

IdsOf(characters) == [i \in 1..Len(characters) |-> characters[i].id]

\* C25: the order does not depend on lastReviewed or on category: on a table
\* that differs only in the last_reviewed of its rows (and, for a request
\* without a filter, in their categories) getStudySession returns the same
\* sequence of ids.
C25_OrderIgnoresReviewed ==
    (QueryDone /\ ~query.error) =>
        \A other \in ReviewedOtherwise(store)
                     \cup (IF IsSpecificCategory(query.category) THEN {}
                           ELSE LabelledOtherwise(store)) :
            \A scan \in ScanOrders(other) :
                IdsOf(getStudySession(other, scan, query.category, FALSE)) = QueryIds

-----------------------------------------------------------------------------
(* Claims about failing storage calls, checked under SpecFailure *)

\* The three counters a recordAnswer call writes when its update is applied.
CountersWritten(call) ==
    LET updates == recordAnswerUpdates(call.read, call.isCorrect, 0)
    IN  [score |-> updates.score, attempts |-> updates.attempts,
         correct_count |-> updates.correct_count]

RECURSIVE AppliedIn(_)
AppliedIn(k) == IF k = 0 THEN 0 ELSE Len(hist[k]) + AppliedIn(k - 1)

\* C24: persistence failures are logged and degraded: a getStudySession or
\* getCharacters call whose query fails returns the empty sequence; a
\* recordAnswer call whose select fails ends and leaves the table as it was, and
\* a step that ends a call either leaves the three counters of its row as they
\* were or writes all three as the rule gives them: there is no partial update.
C24_FailuresDegrade ==
    /\ []((QueryDone /\ query.error) => query.data = <<>>)
    /\ [][/\ (answered' = answered + 1 /\ calls' = calls) => store' = store
          /\ \A id \in DOMAIN store \cap DOMAIN store' :
                \/ Counters(store'[id]) = Counters(store[id])
                \/ \E call \in calls \ calls' :
                      /\ call.id = id
                      /\ Counters(store'[id]) = CountersWritten(call)]_vars

\* C24 witness: a getCharacters call has failed, and of the recordAnswer calls
\* that have ended some were applied and some were not.
C24_Witness ==
    /\ query.op = "getCharacters"
    /\ query.error
    /\ AppliedIn(Len(hist)) > 0
    /\ answered > Cardinality(calls) + AppliedIn(Len(hist))

-----------------------------------------------------------------------------
(* Claims about the study page's session, results and category, checked under
   SpecPage *)

\* C23: the page's session is changed only on behalf of the session shown: a
\* handleAnswer still awaiting its write for a session that was reset or
\* replaced does not set the page's session back to it nor turn showResults on,
\* so a session or results on the page always stem from the current generation.
C23_OnlyCurrentSession ==
    (session # Null \/ page.showResults) => page.setBy = page.gen

\* C28: whenever showResults is true the page's session is non-null and complete.
C28_ResultsOfCompleteSession ==
    page.showResults => (session # Null /\ isSessionComplete(session))

\* C29: an active session on the page, once no fetch is pending any more, was
\* fetched for the selected category (the category clicked last).
C29_SessionOfSelectedCategory ==
    (session # Null /\ ~isSessionComplete(session) /\ page.loads = {})
        => page.built = page.selectedCategory

-----------------------------------------------------------------------------
(* Claims about handleAnswer without a card, checked under SpecStudy *)

\* A step in which handleAnswer was invoked: it sent a select or it returned at once.
HandleAnswerInvoked == answered' # answered \/ page'.ignored # page.ignored

\* C27: handleAnswer invoked with no session or with a complete session makes no
\* recordAnswer call and leaves session and showResults as they are; so every
\* handleAnswer that goes on holds a session whose cursor is below totalCards,
\* and the cursor of the session on the page never exceeds totalCards.
C27_NoCardNoAnswer ==
    /\ [][(HandleAnswerInvoked /\ (session = Null \/ isSessionComplete(session)))
            => /\ UNCHANGED <<store, calls, answered, hist, session>>
               /\ page'.showResults = page.showResults
               /\ page'.handlers = page.handlers]_vars
    /\ [](\A h \in page.handlers : h.session.currentIndex < h.session.totalCards)
    /\ [](session # Null => session.currentIndex <= session.totalCards)

C27_Witness ==
    /\ page.ignored = {"no session", "complete"}
    /\ session # Null /\ isSessionComplete(session)
    /\ answered > 0

-----------------------------------------------------------------------------
(* Claims about storage.initializeSampleData, checked under SpecSeed *)

\* C30: a run of initializeSampleData adds a sample row only to a table that
\* holds no characters but the samples this run has inserted itself: never to a
\* table that already had characters, be it after a failed read or while
\* another run is inserting.
C30_SamplesOnlyIntoEmptyStore ==
    [][\A run \in page.inits : \A after \in page'.inits :
          (after.n = run.n /\ after.own # run.own) => DOMAIN store \subseteq run.own]_vars

-----------------------------------------------------------------------------
(* Claims about deleteAccount, checked under SpecAccount *)

\* C26: deleteAccount signs out and redirects to /auth only after its delete of
\* the characters with user_id = the current user succeeded; when there is no
\* user or the delete fails it throws and leaves user, session and table as
\* they are, without sign-out or redirect; and after a successful delete no
\* character of that user remains.
C26_DeleteThenSignOut ==
    /\ []((auth.del.pc \in {"signOut", "returned"} \/ auth.location = "/auth")
            => auth.del.deleted)
    /\ [](auth.del.deleted =>
            \A id \in DOMAIN store : store[id]["user_id"] # auth.del.currentUser.id)
    /\ [][(/\ auth.del.pc \in {"idle", "threw", "delete"}
           /\ auth'.del # auth.del /\ auth'.del.pc = "threw")
            => /\ auth'.user = auth.user /\ auth'.session = auth.session
               /\ auth'.server = auth.server /\ auth'.location = auth.location
               /\ store' = store]_vars

C26_Witness ==
    /\ auth.del.pc = "returned" /\ auth.location = "/auth" /\ auth.user = Null
    /\ Cardinality(DOMAIN store) + 2 = nextId - 1
    /\ \E id \in DOMAIN store : store[id]["user_id"] = OtherUserId

=============================================================================
